---- MODULE Spec2Model ----
(***************************************************************************)
(* Bucket endpoints of the satellite metainfo service                      *)
(* (satellite/metainfo/endpoint_bucket.go): GetBucket, CreateBucket,       *)
(* DeleteBucket and ListBuckets, each request running as its own task and  *)
(* interleaving with the others at every collaborator call (bucket         *)
(* catalog, project settings, object-metadata store, attribution).         *)
(***************************************************************************)
EXTENDS Integers, Sequences, FiniteSets, TLC

\* ------------------------------------------------------------------ bounds
\* most objects one bucket holds at a time
MaxObjects == 2
\* most bucket records ever inserted (the logical clock of creation times)
MaxClock == 2

\* ------------------------------------------------------------------ universe
Reqs == {"r1", "r2"}
Projects == {"P", "Q"}

\* bucket names are byte strings: sequences of code points
NameA == <<97, 98, 99>>
NameB == <<97, 98, 100>>
BadName == <<65, 98, 99>>
\* names one byte too short and one byte too long
ShortName == <<97, 98>>
LongName == [i \in 1..64 |-> 97]
Names == {NameA, NameB}

\* the bucket locations of the model: two in project P, one of the same name in Q
Keys == {<<"P", NameA>>, <<"P", NameB>>, <<"Q", NameA>>}

\* name grammar: lowercase letters, digits, hyphen, period; length 3..63
MinNameLen == 3
MaxNameLen == 63
NameChars == (97..122) \cup (48..57) \cup {45, 46}

validateBucket(name) ==
    /\ Len(name) >= MinNameLen
    /\ Len(name) <= MaxNameLen
    /\ \A i \in 1..Len(name) : name[i] \in NameChars

\* endpoint.config.ProjectLimits.MaxBuckets
DefaultMaxBuckets == 1
\* per-project override of the bucket ceiling: <<>> is "not set" (a nil *int)
ProjectOverride == [p \in Projects |-> IF p = "Q" THEN <<2>> ELSE <<>>]
\* the overrides an operator may give a project: none, zero, one more than the default
OverrideValues == {<<>>, <<0>>, <<DefaultMaxBuckets + 1>>}

\* the settings of the satellite that the responses are filled from: endpoint.defaultRS
\* and endpoint.config.MaxSegmentSize
Configs ==
    { [rs |-> [erasureShareSize |-> 256, minReq |-> 29], maxSegmentSize |-> 64],
      [rs |-> [erasureShareSize |-> 512, minReq |-> 16], maxSegmentSize |-> 32] }
InitialConfig == CHOOSE c \in Configs : c.maxSegmentSize = 64

\* the encryption and redundancy preferences a create request may carry
ZeroParams == [cipher |-> "UNSPECIFIED", shareSize |-> 0, minReq |-> 0, segmentSize |-> 0]
CustomParams == [cipher |-> "SECRETBOX", shareSize |-> 1024, minReq |-> 4, segmentSize |-> 8]

\* ------------------------------------------------------------------ state
VARIABLES
    catalog,   \* bucket records of the buckets DB: set of [project, name, created, params],
               \* each with the history of its insert in origin
    objects,   \* object-metadata store: number of objects under each bucket location
    clock,     \* number of records inserted so far; the source of creation times
    req,       \* one record per request task: inputs, locals, position, response
    refused,   \* history of lone requests: the projects a create of which was refused at the quota
    overrides, \* project settings: the bucket-count override of each project
    config,    \* the settings the endpoint was constructed with
    env        \* the deployment under study: "seq", "conc", "ops", "retry" or "convert" (never changes)

vars == <<catalog, objects, clock, req, refused, overrides, config, env>>

\* a nil *pb.Bucket
NilProto ==
    [ present |-> FALSE, name |-> <<>>, createdAt |-> 0,
      pathCipher |-> "", defaultSegmentSize |-> 0,
      defaultRS |-> [erasureShareSize |-> 0, minReq |-> 0],
      cipherSuite |-> "", blockSize |-> 0 ]
\* the (name, count, err) that deleteBucketNotEmpty returns; "unset" before it returns
NoForce == [name |-> <<>>, count |-> 0, err |-> "unset"]

IdleReq ==
    [ pc |-> "idle", kind |-> "none", project |-> "P", name |-> <<>>,
      supplied |-> ZeroParams,
      deleteAll |-> FALSE, canRead |-> FALSE, canList |-> FALSE,
      granted |-> FALSE, touched |-> FALSE, fault |-> FALSE,
      exists |-> "unset", maxBuckets |-> 0, bucketCount |-> 0, counted |-> FALSE,
      inserted |-> FALSE,
      convBucket |-> NilProto,
      forced |-> FALSE, emptyA |-> "unset", emptyB |-> "unset",
      delA |-> "unset", delB |-> "unset",
      walk |-> "unset", deletedCount |-> 0, drained |-> 0,
      forwarded |-> 0, notifyFailed |-> FALSE,
      retried |-> FALSE, createdAt |-> 0,
      startObjs |-> 0, disturbed |-> FALSE,
      force |-> NoForce,
      cursor |-> <<>>, limit |-> 0, allowed |-> {},
      result |-> "", respBucket |-> NilProto, respCount |-> 0,
      items |-> <<>>, more |-> FALSE ]

Start ==
    /\ catalog = {}
    /\ objects = [k \in Keys |-> 0]
    /\ clock = 0
    /\ req = [r \in Reqs |-> IdleReq]
    /\ refused = {}
    /\ overrides = ProjectOverride
    /\ config = InitialConfig

\* one request at a time, over both projects, with collaborators that may fail
Init == Start /\ env = "seq"

\* two request tasks running concurrently in one project, collaborators not failing
InitConc == Start /\ env = "conc"

\* one request at a time in one project, collaborators not failing, while operators
\* change the project settings and restart the satellite with other settings
InitOps == Start /\ env = "ops"

\* one caller in one project, collaborators not failing, who re-issues a forced deletion
\* each time it is answered with FailedPrecondition
InitRetry == Start /\ env = "retry"

\* the conversion to the wire shape on its own, applied by two tasks to records of every
\* kind under either configuration
InitConvert ==
    /\ catalog = {}
    /\ objects = [k \in Keys |-> 0]
    /\ clock = 0
    /\ req = [r \in Reqs |-> IdleReq]
    /\ refused = {}
    /\ overrides = ProjectOverride
    /\ config \in Configs
    /\ env = "convert"

Sequential == env = "seq"
Operated == env = "ops"
Retrying == env = "retry"
\* the history of a lone request is kept
Traced == Sequential \/ Retrying
Tasks == IF env \in {"conc", "convert"} THEN Reqs ELSE {"r1"}
\* whether a collaborator call may fail
Failures == IF Sequential THEN BOOLEAN ELSE {FALSE}
CallProjects == IF Sequential THEN Projects ELSE {"P"}
\* the <<project, name>> of get and create requests, of delete requests, and of the
\* buckets that uplinks write into
CallTargets ==
    IF Sequential THEN Keys \cup ({"P"} \X {BadName, ShortName, LongName}) ELSE {"P"} \X Names
DeleteTargets == IF Sequential THEN CallTargets ELSE {<<"P", NameA>>}
WriteKeys == IF Sequential THEN Keys ELSE {<<"P", NameA>>}
\* the optional permissions <<canRead, canList>> of a delete request
\* whether the piece-deletion notifier may fail on a batch
NotifierFailures == IF Operated THEN BOOLEAN ELSE {FALSE}
\* the preferences a create request carries
CallParams == IF Operated THEN {ZeroParams, CustomParams} ELSE {ZeroParams}
CallPermissions == BOOLEAN \X BOOLEAN

\* ------------------------------------------------------------------ collaborators
\* buckets DB
Records(p, n) == {b \in catalog : b.project = p /\ b.name = n}
HasRecord(p, n) == Records(p, n) # {}
TheRecord(p, n) == CHOOSE b \in Records(p, n) : TRUE
CountRecords(p) == Cardinality({b \in catalog : b.project = p})

\* faulty variant: an override of zero is taken for "not set"
EffectiveMaxBucketsZeroUnset(p) ==
    IF overrides[p] = <<>> \/ overrides[p][1] = 0 THEN DefaultMaxBuckets ELSE overrides[p][1]

\* project settings, then the configured default (lines 93-100)
EffectiveMaxBuckets(p) ==
    IF overrides[p] = <<>> THEN DefaultMaxBuckets ELSE overrides[p][1]

\* metabase.BucketEmpty
BucketEmpty(p, n) == objects[<<p, n>>] = 0

\* convertProtoToBucket (lines 367-389): of the request only the name goes into the
\* record; the encryption and redundancy fields of the record keep their zero values
convertProtoToBucket(q, projectID) ==
    [project |-> projectID, name |-> q.name, params |-> ZeroParams]

\* faulty variant: the creation time of the record does not go into the response
convertBucketToProtoNoTime(bucket, rs, maxSegmentSize) ==
    IF Len(bucket.name) = 0
    THEN NilProto
    ELSE [ present |-> TRUE, name |-> bucket.name, createdAt |-> 0,
           pathCipher |-> "AESGCM",
           defaultSegmentSize |-> maxSegmentSize,
           defaultRS |-> rs,
           cipherSuite |-> "AESGCM",
           blockSize |-> rs.erasureShareSize * rs.minReq ]

\* faulty variant: the response is filled from the settings the satellite first ran with
convertBucketToProtoStale(bucket, rs, maxSegmentSize) ==
    IF Len(bucket.name) = 0
    THEN NilProto
    ELSE [ present |-> TRUE, name |-> bucket.name, createdAt |-> bucket.createdAt,
           pathCipher |-> "AESGCM",
           defaultSegmentSize |-> InitialConfig.maxSegmentSize,
           defaultRS |-> InitialConfig.rs,
           cipherSuite |-> "AESGCM",
           blockSize |-> InitialConfig.rs.erasureShareSize * InitialConfig.rs.minReq ]

\* convertBucketToProto (lines 391-409)
convertBucketToProto(bucket, rs, maxSegmentSize) ==
    IF Len(bucket.name) = 0
    THEN NilProto
    ELSE [ present |-> TRUE, name |-> bucket.name, createdAt |-> bucket.createdAt,
           pathCipher |-> "AESGCM",
           defaultSegmentSize |-> maxSegmentSize,
           defaultRS |-> rs,
           cipherSuite |-> "AESGCM",
           blockSize |-> rs.erasureShareSize * rs.minReq ]

\* the error that convertBucketToProto returns with its payload: nil at both of its
\* returns (lines 393 and 408)
convertBucketToProtoErr(bucket, rs, maxSegmentSize) == ""

\* ------------------------------------------------------------------ helpers
Set(r, q) == req' = [req EXCEPT ![r] = q]

\* return (resp, err): the request is over
Return(q, result, bucket, count) ==
    [q EXCEPT !.pc = "done", !.result = result, !.respBucket = bucket, !.respCount = count]

Fail(q, result) == Return(q, result, NilProto, 0)


\* a task is free to take a request; an insert is still possible for every create in flight
Idle(r) == r \in Tasks /\ req[r].pc = "idle"
InFlightCreates == Cardinality({r \in Reqs : req[r].kind = "create" /\ req[r].pc \notin {"idle", "done"}})

\* faulty variant: the denial of the mandatory action is not looked at
AfterAuthUnchecked(q, granted, next) == [q EXCEPT !.granted = granted, !.pc = next]

\* validateAuth / validateAuthN: the request goes on only when the mandatory action is granted
AfterAuth(q, granted, next) ==
    IF granted
    THEN [q EXCEPT !.granted = TRUE, !.pc = next]
    ELSE Fail(q, "PermissionDenied")

\* faulty variant: the name is not validated
AfterValidateSkipped(q, next) == q

\* validateBucket failing: InvalidArgument (lines 74-77, 181-184)
AfterValidate(q, next) ==
    IF q.pc = "done" \/ validateBucket(q.name)
    THEN q
    ELSE Fail(q, "InvalidArgument")

NewReq(kind, p, n) == [IdleReq EXCEPT !.kind = kind, !.project = p, !.name = n]

\* ------------------------------------------------------------------ GetBucket
\* lines 25-37: authorization for ActionRead
GetBucketAuth(r) ==
    /\ Idle(r)
    /\ \E t \in CallTargets, granted \in BOOLEAN :
           Set(r, AfterAuth(NewReq("get", t[1], t[2]), granted, "get"))
    /\ UNCHANGED <<catalog, objects, clock, refused, overrides, config, env>>

\* lines 39-56: buckets.GetMinimalBucket, then the conversion
GetBucketResult(q, failed) ==
    IF failed THEN Fail([q EXCEPT !.fault = TRUE], "Internal")
    ELSE IF ~HasRecord(q.project, q.name) THEN Fail(q, "NotFound")
    ELSE LET b == TheRecord(q.project, q.name)
         IN  Return(q, "OK", convertBucketToProto([name |-> b.name, createdAt |-> b.created],
                                                  config.rs, config.maxSegmentSize), 0)

GetBucketRead(r) ==
    /\ req[r].pc = "get"
    /\ \E failed \in Failures :
           Set(r, GetBucketResult([req[r] EXCEPT !.touched = TRUE], failed))
    /\ UNCHANGED <<catalog, objects, clock, refused, overrides, config, env>>

\* ------------------------------------------------------------------ CreateBucket
\* lines 60-77: authorization for ActionWrite, then the name validation
CreateBucketAuth(r) ==
    /\ Idle(r)
    /\ clock + InFlightCreates < MaxClock
    /\ \E t \in CallTargets, granted \in BOOLEAN, params \in CallParams :
           LET q == [NewReq("create", t[1], t[2]) EXCEPT
                         !.supplied = IF granted THEN params ELSE ZeroParams]
           IN  Set(r, AfterValidate(AfterAuth(q, granted, "has"), "has"))
    /\ UNCHANGED <<catalog, objects, clock, refused, overrides, config, env>>

\* faulty variant: the quota is looked at before the existence of the name
HasBucketQuotaFirst(q, failed) ==
    IF failed THEN Fail([q EXCEPT !.fault = TRUE], "Internal")
    ELSE IF CountRecords(q.project) >= EffectiveMaxBuckets(q.project)
         THEN Fail([q EXCEPT !.exists = IF HasRecord(q.project, q.name) THEN "yes" ELSE "no"],
                   "ResourceExhausted")
    ELSE IF HasRecord(q.project, q.name)
         THEN [q EXCEPT !.exists = "yes", !.pc = "attrExists"]
         ELSE [q EXCEPT !.exists = "no", !.pc = "max"]

\* faulty variant: an existing bucket does not end the request
HasBucketIgnored(q, failed) ==
    IF failed THEN Fail([q EXCEPT !.fault = TRUE], "Internal")
    ELSE [q EXCEPT !.exists = IF HasRecord(q.project, q.name) THEN "yes" ELSE "no",
                   !.pc = "max"]

\* lines 79-90: buckets.HasBucket
HasBucketResult(q, failed) ==
    IF failed THEN Fail([q EXCEPT !.fault = TRUE], "Internal")
    ELSE IF HasRecord(q.project, q.name)
         THEN [q EXCEPT !.exists = "yes", !.pc = "attrExists"]
         ELSE [q EXCEPT !.exists = "no", !.pc = "max"]

CreateBucketHas(r) ==
    /\ req[r].pc = "has"
    /\ \E failed \in Failures :
           Set(r, HasBucketResult([req[r] EXCEPT !.touched = TRUE], failed))
    /\ UNCHANGED <<catalog, objects, clock, refused, overrides, config, env>>

\* lines 85-89: the bucket exists; ensureAttribution, then AlreadyExists
ExistsResult(q, failed) ==
    IF failed THEN Fail([q EXCEPT !.fault = TRUE], "AttributionError")
    ELSE Fail(q, "AlreadyExists")

CreateBucketExists(r) ==
    /\ req[r].pc = "attrExists"
    /\ \E failed \in Failures : Set(r, ExistsResult(req[r], failed))
    /\ UNCHANGED <<catalog, objects, clock, refused, overrides, config, env>>

\* lines 92-100: projects.GetMaxBuckets; its error is returned as it is
MaxBucketsResult(q, failed) ==
    IF failed THEN Fail([q EXCEPT !.fault = TRUE], "RawError")
    ELSE [q EXCEPT !.maxBuckets = EffectiveMaxBuckets(q.project), !.pc = "count"]

CreateBucketMax(r) ==
    /\ req[r].pc = "max"
    /\ \E failed \in Failures : Set(r, MaxBucketsResult(req[r], failed))
    /\ UNCHANGED <<catalog, objects, clock, refused, overrides, config, env>>

\* faulty variant: no count ever reaches the ceiling
QuotaReachedNever(bucketCount, maxBuckets) == FALSE

\* faulty variant: the project may go one bucket over its ceiling
QuotaReachedStrict(bucketCount, maxBuckets) == bucketCount > maxBuckets

\* line 105: the ceiling is on the existing count
QuotaReached(bucketCount, maxBuckets) == bucketCount >= maxBuckets

\* faulty variant: the count is taken and the request goes on whatever it is
CountResultUnchecked(q, failed) ==
    IF failed THEN Fail([q EXCEPT !.fault = TRUE], "RawError")
    ELSE [q EXCEPT !.bucketCount = CountRecords(q.project), !.counted = TRUE, !.pc = "insert"]

\* lines 101-107: buckets.CountBuckets, then the quota decision
CountResult(q, failed) ==
    IF failed THEN Fail([q EXCEPT !.fault = TRUE], "RawError")
    ELSE LET c == CountRecords(q.project)
         IN  IF QuotaReached(c, q.maxBuckets)
             THEN Fail([q EXCEPT !.bucketCount = c, !.counted = TRUE], "ResourceExhausted")
             ELSE [q EXCEPT !.bucketCount = c, !.counted = TRUE, !.pc = "insert"]

CreateBucketCount(r) ==
    /\ req[r].pc = "count"
    /\ \E failed \in Failures :
           /\ Set(r, CountResult(req[r], failed))
           /\ refused' = IF Sequential /\ req'[r].result = "ResourceExhausted"
                         THEN refused \cup {req[r].project} ELSE refused
    /\ UNCHANGED <<catalog, objects, clock, overrides, config, env>>

\* faulty variant: the buckets DB has no unique key on (project, name)
InsertFailsNoUniqueKey(p, n, failed) == failed

\* buckets.CreateBucket of the buckets DB: (project, name) is a unique key, so the
\* insert of a key that is already there is an error
InsertFails(p, n, failed) == failed \/ HasRecord(p, n)

\* lines 109-118: convertProtoToBucket, then buckets.CreateBucket; every error of the
\* insert is answered with Internal
CreateBucketInsert(r) ==
    /\ req[r].pc = "insert"
    /\ LET q == req[r] IN
       \E failed \in Failures :
           IF InsertFails(q.project, q.name, failed)
           THEN /\ Set(r, Fail([q EXCEPT !.fault = failed], "Internal"))
                /\ UNCHANGED <<catalog, clock>>
           ELSE LET bucketReq == convertProtoToBucket(q, q.project)
                    bucket == [ project |-> bucketReq.project, name |-> bucketReq.name,
                                params |-> bucketReq.params, created |-> clock + 1,
                                origin |-> [config |-> config, supplied |-> q.supplied] ]
                IN  /\ clock' = clock + 1
                    /\ catalog' = catalog \cup {bucket}
                    /\ Set(r, [q EXCEPT !.inserted = TRUE, !.pc = "attr",
                                        !.convBucket = convertBucketToProto(
                                            [name |-> bucket.name, createdAt |-> bucket.created],
                                            config.rs, config.maxSegmentSize)])
    /\ UNCHANGED <<objects, refused, overrides, config, env>>

\* lines 120-137: ensureAttribution after the insert, then the response
CreatedResult(q, failed) ==
    IF failed THEN Fail([q EXCEPT !.fault = TRUE], "AttributionError")
    ELSE Return(q, "OK", q.convBucket, 0)

\* faulty variant: a failed attribution takes the new record out of the catalog again
CreateBucketAttributionRollsBack(r) ==
    /\ req[r].pc = "attr"
    /\ \E failed \in Failures :
           /\ Set(r, CreatedResult(req[r], failed))
           /\ catalog' = IF failed THEN catalog \ Records(req[r].project, req[r].name)
                         ELSE catalog
    /\ UNCHANGED <<objects, clock, refused, overrides, config, env>>

CreateBucketAttribution(r) ==
    /\ req[r].pc = "attr"
    /\ \E failed \in Failures : Set(r, CreatedResult(req[r], failed))
    /\ UNCHANGED <<catalog, objects, clock, refused, overrides, config, env>>

\* ------------------------------------------------------------------ DeleteBucket
\* history of a lone request: the objects under its bucket when it began, and whether an
\* object was committed under it while it ran
ObjectsSeen(p, n) == IF Traced /\ <<p, n>> \in Keys THEN objects[<<p, n>>] ELSE 0
Disturb(q, p, n) ==
    IF Traced /\ q.kind = "delete" /\ q.pc \notin {"idle", "done"}
       /\ q.project = p /\ q.name = n
    THEN [q EXCEPT !.disturbed = TRUE]
    ELSE q

\* faulty variant: the snapshot is fetched for every caller
AfterDeleteAuthAlways(q) ==
    IF q.pc = "done" THEN q ELSE [q EXCEPT !.pc = "getmin"]

\* lines 141-190: validateAuthN for ActionDelete, with ActionRead and ActionList as
\* optional permissions reported in canRead and canList, then the name validation;
\* the snapshot is fetched only with Read or List
AfterDeleteAuth(q) ==
    IF q.pc = "done" THEN q
    ELSE [q EXCEPT !.pc = IF q.canRead \/ q.canList THEN "getmin" ELSE "empty"]

DeleteBucketAuth(r) ==
    /\ Idle(r)
    /\ \E t \in DeleteTargets, granted \in BOOLEAN,
          all \in BOOLEAN, perm \in CallPermissions :
           LET q == [NewReq("delete", t[1], t[2]) EXCEPT !.deleteAll = all,
                         !.canRead = granted /\ perm[1], !.canList = granted /\ perm[2],
                         !.startObjs = ObjectsSeen(t[1], t[2])]
           IN  Set(r, AfterDeleteAuth(AfterValidate(AfterAuth(q, granted, "getmin"), "getmin")))
    /\ UNCHANGED <<catalog, objects, clock, refused, overrides, config, env>>

\* lines 190-204: the snapshot of the bucket, fetched only with Read or List
SnapshotResult(q, failed) ==
    IF failed THEN Fail([q EXCEPT !.fault = TRUE], "RawError")
    ELSE IF ~HasRecord(q.project, q.name) THEN Fail(q, "NotFound")
    ELSE LET b == TheRecord(q.project, q.name)
         IN  [q EXCEPT !.pc = "empty",
                       !.convBucket = convertBucketToProto(
                           [name |-> b.name, createdAt |-> b.created],
                           config.rs, config.maxSegmentSize)]

DeleteBucketSnapshot(r) ==
    /\ req[r].pc = "getmin"
    /\ \E failed \in Failures :
           Set(r, SnapshotResult([req[r] EXCEPT !.touched = TRUE], failed))
    /\ UNCHANGED <<catalog, objects, clock, refused, overrides, config, env>>

\* lines 218-223: what DeleteBucket makes of the return of deleteBucketNotEmpty
ForcedResponse(q, name, count, err) ==
    LET f == [q EXCEPT !.force = [name |-> name, count |-> count, err |-> err]]
    IN  IF err # "" THEN Fail(f, err)
        ELSE Return(f, "OK", q.convBucket, count)

\* faulty variant: a bucket found non-empty again is drained again
ForcedDeleteDrainsAgain(q, err) ==
    IF err = "NotEmpty" THEN [q EXCEPT !.pc = "walk"]
    ELSE IF err = "NotFound" THEN ForcedResponse(q, q.name, 0, "")
    ELSE IF err = "Other" THEN ForcedResponse(q, <<>>, q.deletedCount, "Internal")
    ELSE ForcedResponse(q, q.name, q.deletedCount, "")

\* faulty variant: the count of the walk is lost on success
ForcedDeleteCountDropped(q, err) ==
    IF err = "NotEmpty" THEN ForcedResponse(q, <<>>, q.deletedCount, "FailedPrecondition")
    ELSE IF err = "NotFound" THEN ForcedResponse(q, q.name, 0, "")
    ELSE IF err = "Other" THEN ForcedResponse(q, <<>>, q.deletedCount, "Internal")
    ELSE ForcedResponse(q, q.name, 0, "")

\* faulty variant: a bucket found non-empty again is answered like any other failure
ForcedDeleteRaceInternal(q, err) ==
    IF err = "NotFound" THEN ForcedResponse(q, q.name, 0, "")
    ELSE IF err # "" THEN ForcedResponse(q, <<>>, q.deletedCount, "Internal")
    ELSE ForcedResponse(q, q.name, q.deletedCount, "")

\* lines 268-280: deleteBucketNotEmpty after its call of deleteBucket
\* err: "" (removed), "NotEmpty", "NotFound", "Other"
ForcedDeleteResult(q, err) ==
    IF err = "NotEmpty" THEN ForcedResponse(q, <<>>, q.deletedCount, "FailedPrecondition")
    ELSE IF err = "NotFound" THEN ForcedResponse(q, q.name, 0, "")
    ELSE IF err = "Other" THEN ForcedResponse(q, <<>>, q.deletedCount, "Internal")
    ELSE ForcedResponse(q, q.name, q.deletedCount, "")

\* faulty variant: the deleteAll flag of the request is not looked at
MayForceWithoutFlag(q) == q.canList

\* faulty variant: deleteAll is honoured without the List permission
MayForceWithoutList(q) == q.deleteAll

\* line 214: List permission is required to delete all objects in a bucket
MayForce(q) == q.deleteAll /\ q.canList

\* faulty variant: a record found gone at the removal is an internal failure
PlainDeleteResultRaceFails(q, err) ==
    IF err = "" THEN Return(q, "OK", q.convBucket, 0)
    ELSE IF ~q.canRead /\ ~q.canList THEN Return(q, "OK", NilProto, 0)
    ELSE IF err = "NotEmpty"
         THEN IF ~MayForce(q) THEN Fail(q, "FailedPrecondition")
              ELSE [q EXCEPT !.pc = "walk", !.forced = TRUE]
    ELSE Fail(q, "Internal")

\* faulty variant: the error of deleteBucket is reported to every caller
PlainDeleteResultLeaky(q, err) ==
    IF err = "" THEN Return(q, "OK", q.convBucket, 0)
    ELSE IF err = "NotEmpty"
         THEN IF ~MayForce(q) THEN Fail(q, "FailedPrecondition")
              ELSE [q EXCEPT !.pc = "walk", !.forced = TRUE]
    ELSE IF err = "NotFound" THEN Return(q, "OK", q.convBucket, 0)
    ELSE Fail(q, "Internal")

\* lines 206-232: DeleteBucket after its first call of deleteBucket
PlainDeleteResult(q, err) ==
    IF err = "" THEN Return(q, "OK", q.convBucket, 0)
    ELSE IF ~q.canRead /\ ~q.canList THEN Return(q, "OK", NilProto, 0)
    ELSE IF err = "NotEmpty"
         THEN IF ~MayForce(q) THEN Fail(q, "FailedPrecondition")
              ELSE [q EXCEPT !.pc = "walk", !.forced = TRUE]
    ELSE IF err = "NotFound" THEN Return(q, "OK", q.convBucket, 0)
    ELSE Fail(q, "Internal")

\* the caller of deleteBucket takes over its error
DeleteResult(q, err) ==
    IF q.forced THEN ForcedDeleteResult(q, err) ELSE PlainDeleteResult(q, err)

\* the check is recorded as the first or the second one of the request
Checked(q, what) ==
    IF q.forced THEN [q EXCEPT !.emptyB = what, !.touched = TRUE]
    ELSE [q EXCEPT !.emptyA = what, !.touched = TRUE]

\* faulty variant: with deleteAll and List the walk is run before any emptiness check
EmptinessResultBulkFirst(q, failed) ==
    IF MayForce(q) /\ ~q.forced THEN [q EXCEPT !.pc = "walk", !.forced = TRUE]
    ELSE IF failed THEN DeleteResult(Checked([q EXCEPT !.fault = TRUE], "err"), "Other")
    ELSE IF ~BucketEmpty(q.project, q.name) THEN DeleteResult(Checked(q, "nonempty"), "NotEmpty")
    ELSE [Checked(q, "empty") EXCEPT !.pc = "del"]

\* faulty variant: a check that failed is taken for a bucket found empty
EmptinessResultFailOpen(q, failed) ==
    IF failed THEN [Checked([q EXCEPT !.fault = TRUE], "err") EXCEPT !.pc = "del"]
    ELSE IF ~BucketEmpty(q.project, q.name) THEN DeleteResult(Checked(q, "nonempty"), "NotEmpty")
    ELSE [Checked(q, "empty") EXCEPT !.pc = "del"]

\* faulty variant: the removal is issued whatever the emptiness check says
EmptinessUnchecked(q, failed) ==
    [Checked(q, IF BucketEmpty(q.project, q.name) THEN "empty" ELSE "nonempty")
        EXCEPT !.pc = "del"]

\* lines 236-245: deleteBucket up to the emptiness check
EmptinessResult(q, failed) ==
    IF failed THEN DeleteResult(Checked([q EXCEPT !.fault = TRUE], "err"), "Other")
    ELSE IF ~BucketEmpty(q.project, q.name) THEN DeleteResult(Checked(q, "nonempty"), "NotEmpty")
    ELSE [Checked(q, "empty") EXCEPT !.pc = "del"]

DeleteBucketEmptiness(r) ==
    /\ req[r].pc = "empty"
    /\ \E failed \in Failures : Set(r, EmptinessResult(req[r], failed))
    /\ UNCHANGED <<catalog, objects, clock, refused, overrides, config, env>>

Removed(q, what) ==
    IF q.forced THEN [q EXCEPT !.delB = what] ELSE [q EXCEPT !.delA = what]

\* faulty variant: the removal reports success and leaves the record as a tombstone
DeleteBucketRemoveTombstone(r) ==
    /\ req[r].pc = "del"
    /\ LET q == req[r] IN
       \E failed \in Failures :
           IF failed
           THEN Set(r, DeleteResult(Removed([q EXCEPT !.fault = TRUE], "err"), "Other"))
           ELSE IF ~HasRecord(q.project, q.name)
           THEN Set(r, DeleteResult(Removed(q, "notfound"), "NotFound"))
           ELSE Set(r, DeleteResult(Removed(q, "ok"), ""))
    /\ UNCHANGED <<catalog, objects, clock, refused, overrides, config, env>>

\* line 247: buckets.DeleteBucket, the unconditional removal of the record
DeleteBucketRemove(r) ==
    /\ req[r].pc = "del"
    /\ LET q == req[r] IN
       \E failed \in Failures :
           IF failed
           THEN /\ Set(r, DeleteResult(Removed([q EXCEPT !.fault = TRUE], "err"), "Other"))
                /\ UNCHANGED catalog
           ELSE IF ~HasRecord(q.project, q.name)
           THEN /\ Set(r, DeleteResult(Removed(q, "notfound"), "NotFound"))
                /\ UNCHANGED catalog
           ELSE /\ catalog' = catalog \ Records(q.project, q.name)
                /\ Set(r, DeleteResult(Removed(q, "ok"), ""))
    /\ UNCHANGED <<objects, clock, refused, overrides, config, env>>

\* faulty variant: the error of the walk does not stop deleteBucketNotEmpty
WalkFailedGoesOn(q, removed) ==
    [q EXCEPT !.fault = TRUE, !.walk = "err", !.drained = removed, !.pc = "empty"]

\* lines 261-266: a failed walk ends the forced deletion with Internal
WalkFailed(q, removed) ==
    ForcedResponse([q EXCEPT !.fault = TRUE, !.walk = "err", !.drained = removed],
                   <<>>, 0, "Internal")

\* lines 262, 268: after the walk comes deleteBucket
WalkDone(q, removed) ==
    [q EXCEPT !.walk = "ok", !.deletedCount = removed, !.drained = removed, !.pc = "empty"]

\* faulty variant: the failure of the notifier is reported to the walk
DeletePiecesPropagates(notifierFailed) == IF notifierFailed THEN "err" ELSE "nil"

\* lines 290-293: the DeletePieces callback hands the batch to deleteSegmentPieces,
\* which returns nothing, and reports success to the walk
DeletePieces(notifierFailed) == "nil"

\* the pieces of the removed objects have gone to the notifier, once each
Notified(q, removed, notifierFailed) ==
    [q EXCEPT !.forwarded = removed, !.notifyFailed = notifierFailed /\ removed > 0]

\* metabase.DeleteBucketObjects stops at a batch whose callback reports an error
WalkAborted(q, removed) ==
    ForcedResponse([Notified(q, removed, TRUE) EXCEPT !.walk = "err", !.drained = removed],
                   <<>>, 0, "Internal")

\* faulty variant: the walk takes the bucket name alone for the bucket location
DeleteBucketObjectsByName(r) ==
    /\ req[r].pc = "walk"
    /\ LET q == req[r]
           k == <<q.project, q.name>>
       IN  /\ objects' = [j \in Keys |-> IF j[2] = q.name THEN 0 ELSE objects[j]]
           /\ Set(r, WalkDone(Notified(q, objects[k], FALSE), objects[k]))
    /\ UNCHANGED <<catalog, clock, refused, overrides, config, env>>

\* lines 284-297: metabase.DeleteBucketObjects removes every object under the bucket
\* location, calling DeletePieces on the batches of what it removed, and returns the
\* number of objects; a walk that fails has removed some of them
DeleteBucketObjects(r) ==
    /\ req[r].pc = "walk"
    /\ LET q == req[r]
           k == <<q.project, q.name>>
       IN  \E notifierFailed \in NotifierFailures :
               IF DeletePieces(notifierFailed) # "nil" /\ objects[k] > 0
               THEN /\ objects' = [objects EXCEPT ![k] = @ - 1]
                    /\ Set(r, WalkAborted(q, 1))
               ELSE \/ /\ objects' = [objects EXCEPT ![k] = 0]
                       /\ Set(r, WalkDone(Notified(q, objects[k], notifierFailed), objects[k]))
                    \/ \E left \in 0..objects[k] :
                           /\ objects' = [objects EXCEPT ![k] = left]
                           /\ Set(r, WalkFailed(Notified(q, objects[k] - left, notifierFailed),
                                                objects[k] - left))
    /\ UNCHANGED <<catalog, clock, refused, overrides, config, env>>

\* ------------------------------------------------------------------ ListBuckets
\* byte-wise order of names
RECURSIVE LessName(_, _)
LessName(a, b) ==
    IF Len(b) = 0 THEN FALSE
    ELSE IF Len(a) = 0 THEN TRUE
    ELSE IF a[1] # b[1] THEN a[1] < b[1]
    ELSE LessName(Tail(a), Tail(b))

RECURSIVE SortNames(_)
SortNames(S) ==
    IF S = {} THEN <<>>
    ELSE LET m == CHOOSE x \in S : \A y \in S \ {x} : LessName(x, y)
         IN  <<m>> \o SortNames(S \ {m})

Prefix(s, n) == IF Len(s) <= n THEN s ELSE SubSeq(s, 1, n)

\* buckets.ListBuckets of the buckets DB: the records of the project whose names are in
\* the allow-list and after the cursor, in name order, cut at the limit
ListPage(p, cursor, limit, allowed) ==
    LET cand == SortNames({n \in allowed : HasRecord(p, n) /\ LessName(cursor, n)})
        page == Prefix(cand, limit)
    IN  [items |-> [i \in 1..Len(page) |->
                       [name |-> page[i], createdAt |-> TheRecord(p, page[i]).created]],
         more |-> Len(cand) > limit]

\* the inputs of a list request
ListCursors == IF env = "conc" THEN {<<>>} ELSE {<<>>, NameA}
ListLimits == IF env = "conc" THEN {2} ELSE {1, 2}
AllowLists == IF env = "conc" THEN {Names} ELSE {Names, {NameA}, {NameB}}

\* lines 300-319: authorization for ActionRead, then the allow-list of the credential
ListBucketsAuth(r) ==
    /\ Idle(r)
    /\ \E p \in CallProjects, granted \in BOOLEAN,
          c \in ListCursors, l \in ListLimits, a \in AllowLists :
           LET q == [NewReq("list", p, <<>>) EXCEPT !.cursor = c, !.limit = l, !.allowed = a]
           IN  Set(r, AfterAuth(IF granted THEN q ELSE NewReq("list", p, <<>>), granted, "list"))
    /\ UNCHANGED <<catalog, objects, clock, refused, overrides, config, env>>

\* faulty variant: the allow-list of the credential is not handed to the buckets DB
ListResponseUnfiltered(projectID, cursor, limit, allowedBuckets) ==
    LET bucketList == ListPage(projectID, cursor, limit, Names)
    IN  [items |-> [i \in 1..Len(bucketList.items) |->
                       [name |-> bucketList.items[i].name,
                        createdAt |-> bucketList.items[i].createdAt]],
         more |-> bucketList.more]

\* faulty variant: the cursor of the request is not handed to the buckets DB
ListResponseNoCursor(projectID, cursor, limit, allowedBuckets) ==
    LET bucketList == ListPage(projectID, <<>>, limit, allowedBuckets)
    IN  [items |-> [i \in 1..Len(bucketList.items) |->
                       [name |-> bucketList.items[i].name,
                        createdAt |-> bucketList.items[i].createdAt]],
         more |-> bucketList.more]

\* lines 321-342: the list options are the cursor and the limit of the request, the
\* listing is that of buckets.ListBuckets for the project of the credential and its
\* allow-list, and each item goes into the response with its name and creation time
ListResponse(projectID, cursor, limit, allowedBuckets) ==
    LET bucketList == ListPage(projectID, cursor, limit, allowedBuckets)
    IN  [items |-> [i \in 1..Len(bucketList.items) |->
                       [name |-> bucketList.items[i].name,
                        createdAt |-> bucketList.items[i].createdAt]],
         more |-> bucketList.more]

\* lines 326-342: the error of buckets.ListBuckets is returned as it is
ListResult(q, failed) ==
    IF failed THEN Fail([q EXCEPT !.fault = TRUE], "RawError")
    ELSE LET l == ListResponse(q.project, q.cursor, q.limit, q.allowed)
         IN  [Return(q, "OK", NilProto, 0) EXCEPT !.items = l.items, !.more = l.more]

\* faulty variant: a listing that could not be read empties the catalog of the project
ListBucketsReadResets(r) ==
    /\ req[r].pc = "list"
    /\ \E failed \in Failures :
           /\ Set(r, ListResult([req[r] EXCEPT !.touched = TRUE], failed))
           /\ catalog' = IF failed THEN {b \in catalog : b.project # req[r].project}
                         ELSE catalog
    /\ UNCHANGED <<objects, clock, refused, overrides, config, env>>

ListBucketsRead(r) ==
    /\ req[r].pc = "list"
    /\ \E failed \in Failures :
           Set(r, ListResult([req[r] EXCEPT !.touched = TRUE], failed))
    /\ UNCHANGED <<catalog, objects, clock, refused, overrides, config, env>>

\* ------------------------------------------------------------------ CountBuckets
\* lines 347-353: the count of buckets.CountBuckets for the project handed in, or 0 and
\* the error as it is; the method takes no credential and makes no authorization check
CountBucketsResult(q, failed) ==
    IF failed THEN Return([q EXCEPT !.fault = TRUE], "RawError", NilProto, 0)
    ELSE Return(q, "OK", NilProto, CountRecords(q.project))

CountBuckets(r) ==
    /\ Idle(r)
    /\ \E p \in CallProjects, failed \in Failures :
           Set(r, CountBucketsResult([NewReq("count", p, <<>>) EXCEPT !.touched = TRUE], failed))
    /\ UNCHANGED <<catalog, objects, clock, refused, overrides, config, env>>

\* ------------------------------------------------------------------ conversion
\* the records handed to the conversion: no name (the zero record), names of the grammar
\* and names outside it, with every creation time
RecordNames == {<<>>, NameA, NameB, BadName, ShortName}

\* convertBucketToProto applied to a record under the running configuration
Convert(r) ==
    /\ Idle(r)
    /\ \E name \in RecordNames, createdAt \in 0..MaxClock :
           LET bucket == [name |-> name, createdAt |-> createdAt]
               pbBucket == convertBucketToProto(bucket, config.rs, config.maxSegmentSize)
               err == convertBucketToProtoErr(bucket, config.rs, config.maxSegmentSize)
               q == [NewReq("convert", "P", name) EXCEPT !.createdAt = createdAt]
           IN  Set(r, Return(q, IF err = "" THEN "OK" ELSE err, pbBucket, 0))
    /\ UNCHANGED <<catalog, objects, clock, refused, overrides, config, env>>

\* ------------------------------------------------------------------ environment
\* an uplink commits an object into a bucket that exists
PutObject(p, n) ==
    /\ HasRecord(p, n)
    /\ objects[<<p, n>>] < MaxObjects
    /\ objects' = [objects EXCEPT ![<<p, n>>] = @ + 1]
    /\ req' = [r \in Reqs |-> Disturb(req[r], p, n)]
    /\ UNCHANGED <<catalog, clock, refused, overrides, config, env>>

\* an operator sets or clears the bucket-count override of a project
SetMaxBuckets(p) ==
    /\ \E v \in OverrideValues \ {overrides[p]} : overrides' = [overrides EXCEPT ![p] = v]
    /\ UNCHANGED <<catalog, objects, clock, req, refused, config, env>>

\* the satellite is restarted with other settings; no request is in flight
Reconfigure ==
    /\ \A r \in Reqs : req[r].pc = "idle"
    /\ \E c \in Configs \ {config} : config' = c
    /\ UNCHANGED <<catalog, objects, clock, req, refused, overrides, env>>

\* the answer that the retry contract tells the caller of a forced deletion to retry on
Retryable(q) ==
    /\ q.kind = "delete" /\ q.pc = "done"
    /\ q.result = "FailedPrecondition"
    /\ q.deleteAll /\ q.canList

\* the caller re-issues the same DeleteBucket: same bucket, same credential, deleteAll set
Retry(r) ==
    /\ Retrying /\ r \in Tasks
    /\ Retryable(req[r])
    /\ LET o == req[r]
           q == [NewReq("delete", o.project, o.name) EXCEPT !.deleteAll = TRUE,
                         !.canRead = o.canRead, !.canList = TRUE,
                         !.startObjs = ObjectsSeen(o.project, o.name),
                         !.retried = TRUE]
       IN  Set(r, AfterDeleteAuth(AfterValidate(AfterAuth(q, TRUE, "getmin"), "getmin")))
    /\ UNCHANGED <<catalog, objects, clock, refused, overrides, config, env>>

\* the response has gone to the caller: the task takes the next request; the caller that
\* retries does not leave it at a retryable answer
Respond(r) ==
    /\ req[r].pc = "done"
    /\ ~(Retrying /\ Retryable(req[r]))
    /\ Set(r, IdleReq)
    /\ UNCHANGED <<catalog, objects, clock, refused, overrides, config, env>>

\* ------------------------------------------------------------------ specification
Step(r) ==
    \/ GetBucketAuth(r)
    \/ GetBucketRead(r)
    \/ CreateBucketAuth(r)
    \/ CreateBucketHas(r)
    \/ CreateBucketExists(r)
    \/ CreateBucketMax(r)
    \/ CreateBucketCount(r)
    \/ CreateBucketInsert(r)
    \/ CreateBucketAttribution(r)
    \/ DeleteBucketAuth(r)
    \/ DeleteBucketSnapshot(r)
    \/ DeleteBucketEmptiness(r)
    \/ DeleteBucketRemove(r)
    \/ DeleteBucketObjects(r)
    \/ ListBucketsAuth(r)
    \/ ListBucketsRead(r)
    \/ CountBuckets(r)
    \/ Respond(r)

Next ==
    \/ \E r \in Reqs : Step(r)
    \/ \E k \in WriteKeys : PutObject(k[1], k[2])

Spec == Init /\ [][Next]_vars

SpecConc == InitConc /\ [][Next]_vars

\* the endpoints together with the operators of the satellite
NextOps ==
    \/ Next
    \/ \E p \in CallProjects : SetMaxBuckets(p)
    \/ Reconfigure

SpecOps == InitOps /\ [][NextOps]_vars

\* the endpoints together with the caller that retries a forced deletion
Serve(r) == Step(r) \/ Retry(r)

NextRetry ==
    \/ \E r \in Reqs : Serve(r)
    \/ \E k \in WriteKeys : PutObject(k[1], k[2])

\* a handler runs to its return and the caller goes on issuing requests; nothing is
\* assumed about the object writers
SpecRetry == InitRetry /\ [][NextRetry]_vars /\ WF_vars(\E r \in Reqs : Serve(r))

\* the conversion on its own
NextConvert == \E r \in Reqs : Convert(r) \/ Respond(r)

SpecConvert == InitConvert /\ [][NextConvert]_vars

\* ------------------------------------------------------------------ claims
KeyOf(q) == <<q.project, q.name>>
IsDone(q, kind) == q.kind = kind /\ q.pc = "done"
Mutated(q) == q.inserted \/ q.delA = "ok" \/ q.delB = "ok" \/ q.walk # "unset"

\* C1: the authorization check comes first. A request is at a collaborator call, or has
\* read or written the catalog or the object store, only if its mandatory action was
\* granted; a request that was denied returns the denial, having read and written nothing.
C1_AuthorizationFirst ==
    \A r \in Reqs : LET q == req[r] IN
        q.kind \in {"get", "create", "delete", "list"} =>
            /\ q.pc \notin {"idle", "done"} => q.granted
            /\ (q.touched \/ Mutated(q)) => q.granted
            /\ (q.pc = "done" /\ ~q.granted) =>
                   /\ q.result = "PermissionDenied"
                   /\ ~q.touched /\ ~Mutated(q)
                   /\ q.respBucket = NilProto

C1_Witness ==
    \E r \in Reqs : LET q == req[r] IN
        /\ IsDone(q, "delete") /\ q.result = "PermissionDenied"
        /\ HasRecord(q.project, q.name) /\ objects[KeyOf(q)] > 0

\* C2 as claimed: every authorized DeleteBucket without deleteAll that finds its bucket
\* non-empty fails with FailedPrecondition, having removed nothing.
C2_Original ==
    \A r \in Reqs : LET q == req[r] IN
        (IsDone(q, "delete") /\ q.granted /\ ~q.deleteAll /\ q.emptyA = "nonempty") =>
            /\ q.result = "FailedPrecondition"
            /\ ~Mutated(q)

\* C2 as amended: the step of a DeleteBucket without deleteAll that finds the bucket
\* non-empty ends the request and changes neither the catalog nor the objects; the
\* response is FailedPrecondition for a caller holding Read or List, and an empty
\* success for a caller holding neither.
C2_NoPartialAction ==
    [][\A r \in Reqs : LET q == req'[r] IN
          (q # req[r] /\ q.kind = "delete" /\ ~q.deleteAll /\ q.emptyA = "nonempty") =>
              /\ catalog' = catalog /\ objects' = objects
              /\ q.pc = "done" /\ ~Mutated(q)
              /\ q.respBucket = NilProto /\ q.respCount = 0
              /\ q.result = IF q.canRead \/ q.canList THEN "FailedPrecondition" ELSE "OK"]_vars

C2_Witness ==
    \E r \in Reqs : LET q == req[r] IN
        /\ IsDone(q, "delete") /\ ~q.deleteAll /\ q.emptyA = "nonempty"
        /\ q.result = "FailedPrecondition"
        /\ HasRecord(q.project, q.name) /\ objects[KeyOf(q)] = MaxObjects

\* C3: a lone DeleteBucket with deleteAll by a caller holding List, on an existing bucket
\* of N >= 1 objects into which nothing is committed meanwhile and whose collaborator
\* calls all return, removes the N objects and the record, answers success with
\* deletedObjectsCount = N, and a GetBucket of the name then answers NotFound.
C3_ForcedDeleteRemovesAll ==
    \A r \in Reqs : LET q == req[r] IN
        (/\ IsDone(q, "delete") /\ q.deleteAll /\ q.canList
         /\ q.convBucket.present /\ q.startObjs >= 1
         /\ ~q.disturbed /\ ~q.fault) =>
            /\ q.result = "OK"
            /\ q.respCount = q.startObjs /\ q.drained = q.startObjs
            /\ q.walk = "ok" /\ q.delB = "ok"
            /\ objects[KeyOf(q)] = 0
            /\ ~HasRecord(q.project, q.name)
            /\ GetBucketResult(NewReq("get", q.project, q.name), FALSE).result = "NotFound"

C3_Witness ==
    \E r \in Reqs : LET q == req[r] IN
        /\ IsDone(q, "delete") /\ q.deleteAll /\ q.canList /\ ~q.canRead
        /\ ~q.disturbed /\ ~q.fault
        /\ q.startObjs = MaxObjects /\ q.respCount = MaxObjects /\ q.result = "OK"

\* C4: in the forced deletion the emptiness re-check and the removal of the record come
\* only after the walk has returned without error; a walk that returns an error ends
\* the request with Internal, no removal of the record having been attempted.
C4_RemovalAfterWalk ==
    \A r \in Reqs : LET q == req[r] IN
        /\ (q.forced /\ q.pc \in {"empty", "del"}) => q.walk = "ok"
        /\ (q.emptyB # "unset" \/ q.delB # "unset") => q.walk = "ok"
        /\ q.walk = "err" =>
               /\ q.pc = "done" /\ q.result = "Internal"
               /\ q.delA = "unset" /\ q.delB = "unset"

C4_Witness ==
    \E r \in Reqs : LET q == req[r] IN
        /\ IsDone(q, "delete") /\ q.walk = "err" /\ q.result = "Internal"
        /\ HasRecord(q.project, q.name)

C6_RepopulatedIsRetryable ==
    \A r \in Reqs : LET q == req[r] IN
        q.emptyB = "nonempty" =>
            /\ q.pc = "done"
            /\ q.force = [name |-> <<>>, count |-> q.drained, err |-> "FailedPrecondition"]
            /\ q.result = "FailedPrecondition"
            /\ q.delA = "unset" /\ q.delB = "unset"
            /\ HasRecord(q.project, q.name)

C6_Witness ==
    \E r \in Reqs : LET q == req[r] IN
        /\ q.emptyB = "nonempty" /\ q.walk = "ok"
        /\ q.force.count = MaxObjects /\ q.drained = MaxObjects

\* C7 as claimed: when the removal after the drain reports NotFound, the request
\* succeeds and reports the number of objects its own drain removed, with the name.
C7_Claim ==
    \A r \in Reqs : LET q == req[r] IN
        q.delB = "notfound" =>
            /\ q.pc = "done" /\ q.result = "OK"
            /\ q.force.name = q.name
            /\ q.force.count = q.drained
            /\ q.respCount = q.drained

\* C8 as claimed: of two CreateBucket requests for the same (project, name), both of
\* which found it absent and the quota not reached, one succeeds and the other
\* returns AlreadyExists.
C8_Claim ==
    \A r, s \in Reqs : LET q == req[r]  t == req[s] IN
        (/\ r # s /\ IsDone(q, "create") /\ IsDone(t, "create")
         /\ KeyOf(q) = KeyOf(t)
         /\ q.counted /\ ~QuotaReached(q.bucketCount, q.maxBuckets)
         /\ t.counted /\ ~QuotaReached(t.bucketCount, t.maxBuckets)) =>
            {q.result, t.result} = {"OK", "AlreadyExists"}

\* C9: the steps of a CreateBucket that found its (project, name) in the catalog leave
\* the catalog as it is (the record and its creation time included), and the request
\* returns AlreadyExists when its collaborator calls return.
C9_ExistingUntouched ==
    [][\A r \in Reqs : LET q == req'[r] IN
          (q # req[r] /\ q.kind = "create" /\ q.exists = "yes") =>
              /\ catalog' = catalog
              /\ ~q.inserted
              /\ q.pc \in {"attrExists", "done"}
              /\ (q.pc = "done" /\ ~q.fault) => q.result = "AlreadyExists"]_vars

C9_Witness ==
    \E r \in Reqs : LET q == req[r] IN
        /\ IsDone(q, "create") /\ q.exists = "yes" /\ q.result = "AlreadyExists"
        /\ HasRecord(q.project, q.name)
        /\ TheRecord(q.project, q.name).created >= 1

\* C10: a CreateBucket whose quota check finds count >= max ends with ResourceExhausted
\* and inserts nothing; one whose quota check finds count < max (as after a deletion
\* in a project that was at its ceiling) inserts and succeeds when its collaborator
\* calls return.
C10_QuotaCeiling ==
    \A r \in Reqs : LET q == req[r] IN
        (q.kind = "create" /\ q.counted) =>
            /\ q.maxBuckets = EffectiveMaxBuckets(q.project)
            /\ q.bucketCount >= q.maxBuckets =>
                   q.pc = "done" /\ q.result = "ResourceExhausted" /\ ~q.inserted
            /\ (q.bucketCount < q.maxBuckets /\ q.pc = "done" /\ ~q.fault) =>
                   q.result = "OK" /\ q.inserted

C10_Witness ==
    \E r \in Reqs : LET q == req[r] IN
        /\ IsDone(q, "create") /\ q.result = "OK" /\ q.project \in refused
        /\ q.counted /\ q.bucketCount < q.maxBuckets
        /\ CountRecords(q.project) = q.maxBuckets

\* C11: the ceiling that CreateBucket reads is the override of the project whenever one
\* is set (zero, below or above the default alike) and the configured default only when
\* none is set; the quota decision is taken on that ceiling and on nothing else.
C11_CeilingIsOverrideOrDefault ==
    [][\A r \in Reqs : LET q == req[r]  n == req'[r] IN
          /\ (q.pc = "max" /\ n.pc = "count") =>
                 /\ overrides[q.project] # <<>> => n.maxBuckets = overrides[q.project][1]
                 /\ overrides[q.project] = <<>> => n.maxBuckets = DefaultMaxBuckets
          /\ (q.pc = "count" /\ n # q /\ ~n.fault) =>
                 /\ n.result = "ResourceExhausted" <=> CountRecords(q.project) >= q.maxBuckets
                 /\ n.pc = "insert" <=> CountRecords(q.project) < q.maxBuckets]_vars

C11_Witness ==
    \E r \in Reqs : LET q == req[r] IN
        /\ IsDone(q, "create") /\ q.result = "ResourceExhausted"
        /\ overrides[q.project] = <<0>> /\ q.maxBuckets = 0
        /\ q.bucketCount = 0 /\ q.bucketCount < DefaultMaxBuckets

\* C12: the quota check and the insert are two steps. The insert step is taken only by
\* a request whose own count was below its ceiling, and it adds the record whenever the
\* name is absent, whatever the count of the project has become since; so two
\* concurrent creates of distinct names can take a project at max-1 above its ceiling.
C12_CheckThenInsert ==
    [][\A r \in Reqs : LET q == req[r] IN
          (q.pc = "insert" /\ req'[r] # q) =>
              /\ q.kind = "create" /\ q.counted /\ q.bucketCount < q.maxBuckets
              /\ ~HasRecord(q.project, q.name) =>
                     /\ req'[r].inserted
                     /\ Cardinality({b \in catalog' : b.project = q.project})
                            = CountRecords(q.project) + 1]_vars

C12_Witness ==
    \E r, s \in Reqs : LET q == req[r]  t == req[s] IN
        /\ IsDone(q, "create") /\ q.result = "OK"
        /\ IsDone(t, "create") /\ t.result = "OK"
        /\ q.project = t.project /\ q.name # t.name
        /\ q.bucketCount = q.maxBuckets - 1 /\ t.bucketCount = t.maxBuckets - 1
        /\ CountRecords(q.project) > EffectiveMaxBuckets(q.project)

\* C13: the bucket that GetBucket (and the CreateBucket response) returns carries the
\* cipher suite, redundancy scheme, block size and default segment size of the settings
\* in force at the time of the read: nothing of them is kept in the record, whatever
\* the create request supplied and whatever the settings were at the insert.
DefaultsOf(c) ==
    [ pathCipher |-> "AESGCM", defaultSegmentSize |-> c.maxSegmentSize,
      defaultRS |-> c.rs, cipherSuite |-> "AESGCM",
      blockSize |-> c.rs.erasureShareSize * c.rs.minReq ]

ProfileOf(pbBucket) ==
    [ pathCipher |-> pbBucket.pathCipher, defaultSegmentSize |-> pbBucket.defaultSegmentSize,
      defaultRS |-> pbBucket.defaultRS, cipherSuite |-> pbBucket.cipherSuite,
      blockSize |-> pbBucket.blockSize ]

C13_DefaultsAtRead ==
    /\ \A b \in catalog : b.params = ZeroParams
    /\ \A r \in Reqs : LET q == req[r] IN
           (q.pc = "done" /\ q.kind \in {"get", "create"} /\ q.result = "OK") =>
               /\ q.respBucket.present
               /\ q.respBucket.name = q.name
               /\ q.respBucket.createdAt = TheRecord(q.project, q.name).created
               /\ ProfileOf(q.respBucket) = DefaultsOf(config)

C13_Witness ==
    \E r \in Reqs : LET q == req[r] IN
        /\ IsDone(q, "get") /\ q.result = "OK"
        /\ TheRecord(q.project, q.name).origin.config # config
        /\ TheRecord(q.project, q.name).origin.supplied = CustomParams
        /\ q.respBucket.defaultRS = config.rs
        /\ q.respBucket.defaultSegmentSize # CustomParams.segmentSize

\* C14: the bucket field of a DeleteBucket response is filled only for a caller that was
\* granted Read or List: on every path the snapshot is fetched, and returned, only then;
\* the response to a caller holding only Delete never carries a bucket.
C14_BucketOnlyWithReadOrList ==
    \A r \in Reqs : LET q == req[r] IN
        q.kind = "delete" =>
            /\ q.convBucket.present => (q.canRead \/ q.canList)
            /\ q.respBucket.present => (q.canRead \/ q.canList)
            /\ (q.pc = "done" /\ ~q.canRead /\ ~q.canList) => q.respBucket = NilProto

C14_Witness ==
    \E r \in Reqs : LET q == req[r] IN
        /\ IsDone(q, "delete") /\ q.result = "OK"
        /\ q.canRead /\ ~q.canList
        /\ q.delA = "notfound"
        /\ q.respBucket.present /\ q.respBucket.name = q.name

\* C15: an authorized DeleteBucket with a valid name by a caller holding neither Read
\* nor List is answered by the one empty successful response, whether the bucket
\* exists or not, is empty or not, a collaborator call fails or not, and whatever
\* deleteAll is: the responses in any two such states are the same.
C15_SameResponseWithoutReadList ==
    \A r \in Reqs : LET q == req[r] IN
        (/\ IsDone(q, "delete") /\ q.granted /\ validateBucket(q.name)
         /\ ~q.canRead /\ ~q.canList) =>
            /\ q.result = "OK"
            /\ q.respBucket = NilProto
            /\ q.respCount = 0
            /\ q.walk = "unset"

C15_Witness ==
    \E r \in Reqs : LET q == req[r] IN
        /\ IsDone(q, "delete") /\ q.granted /\ ~q.canRead /\ ~q.canList
        /\ q.deleteAll /\ q.fault /\ q.emptyA = "err"
        /\ HasRecord(q.project, q.name) /\ objects[KeyOf(q)] > 0
        /\ q.result = "OK"

\* C16 as claimed: an authorized DeleteBucket with a valid name for a bucket that is not
\* in the catalog when the request starts (a lone request: not there at the end and not
\* removed by the request) is answered by a success and never by NotFound, whatever
\* optional permissions the caller holds.
C16_Claim ==
    \A r \in Reqs : LET q == req[r] IN
        (/\ IsDone(q, "delete") /\ q.granted /\ validateBucket(q.name)
         /\ ~HasRecord(q.project, q.name) /\ q.delA # "ok" /\ q.delB # "ok"
         /\ ~q.fault) =>
            /\ q.result # "NotFound"
            /\ q.result = "OK"

\* C17: when the removal of a DeleteBucket by a caller holding Read or List finds the
\* record gone (another request removed the empty bucket after the snapshot was
\* fetched), the request removes nothing and returns success with the snapshot it
\* fetched; and every record that leaves the catalog is removed by the step of exactly
\* one request, so of the two requests exactly one removed it.
C17_LostRaceReturnsSnapshot ==
    [][/\ \A r \in Reqs : LET q == req[r]  n == req'[r] IN
              (/\ q.pc = "del" /\ ~q.forced /\ n # q /\ n.delA = "notfound"
               /\ (q.canRead \/ q.canList)) =>
                  /\ catalog' = catalog
                  /\ ~HasRecord(q.project, q.name)
                  /\ n.pc = "done" /\ n.result = "OK" /\ ~Mutated(n)
                  /\ q.convBucket.present /\ q.convBucket.name = q.name
                  /\ n.respBucket = q.convBucket /\ n.respCount = 0
       /\ \A b \in catalog \ catalog' :
              Cardinality({r \in Reqs :
                  /\ req'[r] # req[r] /\ req[r].pc = "del"
                  /\ req[r].project = b.project /\ req[r].name = b.name
                  /\ (IF req[r].forced THEN req'[r].delB ELSE req'[r].delA) = "ok"}) = 1]_vars

C17_Witness ==
    \E r, s \in Reqs : LET q == req[r]  t == req[s] IN
        /\ r # s /\ IsDone(q, "delete") /\ IsDone(t, "delete")
        /\ KeyOf(q) = KeyOf(t)
        /\ q.delA = "notfound" /\ q.canList /\ ~q.canRead
        /\ q.result = "OK" /\ q.respBucket.present
        /\ t.delA = "ok" /\ t.result = "OK"
        /\ t.respBucket.createdAt = q.respBucket.createdAt

\* C18: objects leave the object store only by the walk of a DeleteBucket request that
\* has deleteAll set and was granted List; a request without List that finds its bucket
\* non-empty ends there, removing no object and no record, with FailedPrecondition when
\* the caller holds Read.
C18_ObjectsOnlyWithDeleteAllAndList ==
    [][/\ \A k \in Keys : objects'[k] < objects[k] =>
              \E r \in Reqs : LET q == req[r] IN
                  /\ req'[r] # q /\ q.kind = "delete" /\ q.pc = "walk"
                  /\ KeyOf(q) = k /\ q.deleteAll /\ q.canList
       /\ \A r \in Reqs : LET n == req'[r] IN
              (/\ n # req[r] /\ n.kind = "delete"
               /\ n.emptyA = "nonempty" /\ ~n.canList) =>
                  /\ catalog' = catalog /\ objects' = objects
                  /\ n.pc = "done" /\ ~Mutated(n)
                  /\ n.canRead => n.result = "FailedPrecondition"]_vars

C18_Witness ==
    \E r \in Reqs : LET q == req[r] IN
        /\ IsDone(q, "delete") /\ q.deleteAll /\ q.canRead /\ ~q.canList
        /\ q.emptyA = "nonempty" /\ q.result = "FailedPrecondition"
        /\ HasRecord(q.project, q.name) /\ objects[KeyOf(q)] = MaxObjects

\* C19: every item of a ListBuckets response names a bucket that is in the catalog under
\* the project of the caller and in the allow-list of its credential, with the creation
\* time of that record; a bucket outside the allow-list is never returned.
C19_OnlyAllowedBuckets ==
    \A r \in Reqs : LET q == req[r] IN
        (IsDone(q, "list") /\ q.result = "OK") =>
            \A i \in 1..Len(q.items) :
                /\ q.items[i].name \in q.allowed
                /\ HasRecord(q.project, q.items[i].name)
                /\ q.items[i].createdAt = TheRecord(q.project, q.items[i].name).created

C19_Witness ==
    \E r \in Reqs : LET q == req[r] IN
        /\ IsDone(q, "list") /\ q.result = "OK"
        /\ q.allowed = {NameB} /\ q.cursor = <<>> /\ q.limit = 2
        /\ HasRecord(q.project, NameA) /\ HasRecord(q.project, NameB)
        /\ Len(q.items) = 1 /\ q.items[1].name = NameB /\ ~q.more

\* the names a caller collects by paging: each page asked with the last name of the
\* page before as its cursor, as long as more is set (at most turns further pages)
RECURSIVE Paging(_, _, _, _, _)
Paging(projectID, cursor, limit, allowedBuckets, turns) ==
    LET page == ListResponse(projectID, cursor, limit, allowedBuckets)
        names == [i \in 1..Len(page.items) |-> page.items[i].name]
    IN  IF ~page.more \/ Len(names) = 0 \/ turns = 0 THEN names
        ELSE names \o Paging(projectID, names[Len(names)], limit, allowedBuckets, turns - 1)

\* s lists the set S once each, in ascending byte order
ListsInOrder(s, S) ==
    /\ Len(s) = Cardinality(S)
    /\ {s[i] : i \in 1..Len(s)} = S
    /\ \A i \in 1..(Len(s) - 1) : LessName(s[i], s[i + 1])

\* C20: with the catalog standing still, paging with any limit >= 1 returns every
\* allowed bucket of the project exactly once, in lexicographic order; each page has at
\* most limit items, all after its cursor, and more is set exactly when allowed buckets
\* remain beyond the page. The response of a request is the page of its cursor.
C20_PagingIsComplete ==
    /\ \A p \in CallProjects, l \in ListLimits, a \in AllowLists :
           /\ ListsInOrder(Paging(p, <<>>, l, a, Cardinality(Names)),
                           {n \in a : HasRecord(p, n)})
           /\ \A c \in ListCursors :
                  LET page == ListResponse(p, c, l, a)
                      names == {page.items[i].name : i \in 1..Len(page.items)}
                      beyond == {n \in a : HasRecord(p, n) /\ LessName(c, n)} \ names
                  IN  /\ Len(page.items) <= l
                      /\ \A n \in names : LessName(c, n)
                      /\ \A n \in names, m \in beyond : LessName(n, m)
                      /\ page.more <=> beyond # {}
    /\ \A r \in Reqs : LET q == req[r] IN
           (IsDone(q, "list") /\ q.result = "OK") =>
               [items |-> q.items, more |-> q.more]
                   = ListResponse(q.project, q.cursor, q.limit, q.allowed)

C20_Witness ==
    \E r \in Reqs : LET q == req[r] IN
        /\ IsDone(q, "list") /\ q.result = "OK"
        /\ q.allowed = Names /\ q.cursor = NameA /\ q.limit = 1
        /\ HasRecord(q.project, NameA) /\ HasRecord(q.project, NameB)
        /\ Len(q.items) = 1 /\ q.items[1].name = NameB /\ ~q.more
        /\ Paging(q.project, <<>>, 1, Names, Cardinality(Names)) = <<NameA, NameB>>

\* C21: an authorized CreateBucket or DeleteBucket whose name is outside the grammar (a
\* byte that is no lowercase letter, digit, hyphen or period, or a length outside
\* 3..63) ends with InvalidArgument at once: it has made no collaborator call and has
\* changed neither the catalog nor the objects.
OutsideGrammar(name) ==
    \/ Len(name) < 3
    \/ Len(name) > 63
    \/ \E i \in 1..Len(name) :
           name[i] \notin ((97..122) \cup (48..57) \cup {45, 46})

C21_InvalidNameRejectedFirst ==
    \A r \in Reqs : LET q == req[r] IN
        (q.kind \in {"create", "delete"} /\ q.granted /\ OutsideGrammar(q.name)) =>
            /\ q.pc = "done" /\ q.result = "InvalidArgument"
            /\ ~q.touched /\ ~Mutated(q)
            /\ q.respBucket = NilProto
            /\ ~HasRecord(q.project, q.name)

C21_Witness ==
    \E r \in Reqs : LET q == req[r] IN
        /\ IsDone(q, "delete") /\ q.granted /\ q.deleteAll /\ q.canList
        /\ Len(q.name) = MaxNameLen + 1
        /\ q.result = "InvalidArgument"
        /\ catalog # {} /\ \E k \in Keys : objects[k] > 0

\* C22: in every reachable state, whatever the interleaving of the requests, the catalog
\* holds at most one record for each (project, name).
C22_OneRecordPerName ==
    /\ \A b, c \in catalog : (b.project = c.project /\ b.name = c.name) => b = c
    /\ \A b, c \in catalog : b.created = c.created => b = c

C22_Witness ==
    \E r, s \in Reqs : LET q == req[r]  t == req[s] IN
        /\ r # s /\ KeyOf(q) = KeyOf(t)
        /\ IsDone(q, "create") /\ q.inserted
        /\ IsDone(t, "create") /\ t.exists = "no" /\ t.counted /\ ~t.inserted
        /\ Cardinality(Records(q.project, q.name)) = 1

\* C23: names are not reserved. A removal that reports success takes the record out of
\* the catalog; the existence check of a create looks at the catalog as it is and at
\* nothing that was there before; a create that finds the name absent and the project
\* below its ceiling inserts and succeeds when its collaborator calls return; and the
\* record it inserts carries a creation time later than that of every record inserted
\* before, the removed one included.
C23_NamesNotReserved ==
    [][/\ clock' >= clock
       /\ \A b \in catalog : b.created <= clock
       /\ \A b \in catalog' \ catalog : b.created = clock + 1 /\ clock' = clock + 1
       /\ \A r \in Reqs : LET q == req[r]  n == req'[r] IN
              /\ (n # q /\ q.pc = "del" /\ (n.delA = "ok" \/ n.delB = "ok")) =>
                     Records(q.project, q.name) \cap catalog' = {}
              /\ (n # q /\ q.pc = "has" /\ ~n.fault) =>
                     (n.exists = "yes" <=> HasRecord(q.project, q.name))
              /\ (n # q /\ n.kind = "create" /\ n.pc = "done" /\ n.exists = "no"
                  /\ n.counted /\ n.bucketCount < n.maxBuckets /\ ~n.fault) =>
                     /\ n.result = "OK" /\ n.inserted
                     /\ n.respBucket.createdAt = clock]_vars

C23_Witness ==
    \E r \in Reqs : LET q == req[r] IN
        /\ IsDone(q, "create") /\ q.result = "OK" /\ q.name = NameA
        /\ q.respBucket.createdAt = 2 /\ clock = 2
        /\ catalog = Records(q.project, NameA)
        /\ TheRecord(q.project, NameA).created = 2

\* C24 as claimed: a GetBucket, CreateBucket or DeleteBucket request one of whose calls of
\* the catalog, the project settings or the object-metadata store failed (the
\* attribution aside) ends with an error of kind Internal.
C24_Claim ==
    \A r \in Reqs : LET q == req[r] IN
        (/\ q.pc = "done" /\ q.kind \in {"get", "create", "delete"}
         /\ q.fault /\ q.result # "AttributionError") =>
            q.result = "Internal"

\* C25: a failure of the piece-deletion notifier is seen by nobody. The pieces of every
\* object the walk removed have gone to the notifier once; the walk ends with an error
\* only by a failure of the object-metadata store itself; and the count and the outcome
\* of the request are those of the walk, whether the notifier failed or not.
C25_NotifierFailureSwallowed ==
    \A r \in Reqs : LET q == req[r] IN
        (q.kind = "delete" /\ q.walk # "unset") =>
            /\ q.forwarded = q.drained
            /\ q.walk = "err" => q.fault
            /\ q.walk = "ok" => q.deletedCount = q.drained
            /\ (q.pc = "done" /\ q.delB = "ok") =>
                   q.result = "OK" /\ q.respCount = q.drained

C25_Witness ==
    \E r \in Reqs : LET q == req[r] IN
        /\ IsDone(q, "delete") /\ q.notifyFailed /\ ~q.fault
        /\ q.walk = "ok" /\ q.delB = "ok" /\ q.result = "OK"
        /\ q.forwarded = MaxObjects /\ q.respCount = MaxObjects
        /\ ~HasRecord(q.project, q.name) /\ objects[KeyOf(q)] = 0

\* how far a DeleteBucket request has come: the snapshot, the first emptiness check and
\* removal, the walk (draining), the second emptiness check and removal (removing), the end
Stage(q) ==
    CASE q.pc = "getmin" -> 1
      [] q.pc = "empty" /\ ~q.forced -> 2
      [] q.pc = "del" /\ ~q.forced -> 3
      [] q.pc = "walk" -> 4
      [] q.pc = "empty" /\ q.forced -> 5
      [] q.pc = "del" /\ q.forced -> 6
      [] OTHER -> 7

\* C27: every step of a DeleteBucket request takes it to a later stage, so it never comes
\* back to the walk: one walk at most, two emptiness checks and two removals at most,
\* no loop, and the end after at most six collaborator calls that return. The walk is
\* followed by the second check, the removal or the end (done or retryable) only.
C27_DeleteNeverGoesBack ==
    [][\A r \in Reqs : LET q == req[r]  n == req'[r] IN
          (/\ [n EXCEPT !.disturbed = q.disturbed] # q
           /\ q.kind = "delete" /\ q.pc \notin {"idle", "done"}) =>
              /\ n.kind = "delete"
              /\ Stage(n) > Stage(q)
              /\ q.walk # "unset" => n.pc # "walk"
              /\ q.pc = "walk" => n.pc \in {"empty", "done"} /\ n.walk # "unset"
              /\ (q.forced /\ n.pc = "done") =>
                     n.result \in {"OK", "FailedPrecondition", "Internal"}]_vars

C27_Witness ==
    \E r \in Reqs : LET q == req[r] IN
        /\ IsDone(q, "delete") /\ q.convBucket.present
        /\ q.emptyA = "nonempty" /\ q.walk = "ok" /\ q.emptyB = "empty"
        /\ q.delA = "unset" /\ q.delB = "err" /\ q.result = "Internal"

\* C28: a lone DeleteBucket on a bucket that is in the catalog and holds no object, into
\* which nothing is committed meanwhile and whose collaborator calls all return,
\* removes the record, runs no walk and answers success with deletedObjectsCount = 0,
\* whatever deleteAll is and whether or not the caller holds List.
C28_EmptyBucketRemovedWithoutWalk ==
    \A r \in Reqs : LET q == req[r] IN
        (/\ IsDone(q, "delete") /\ q.granted /\ validateBucket(q.name)
         /\ (HasRecord(q.project, q.name) \/ q.delA = "ok" \/ q.delB = "ok")
         /\ q.startObjs = 0 /\ ~q.disturbed /\ ~q.fault) =>
            /\ q.result = "OK" /\ q.respCount = 0
            /\ q.emptyA = "empty" /\ q.delA = "ok"
            /\ q.walk = "unset" /\ ~q.forced
            /\ ~HasRecord(q.project, q.name)
            /\ q.respBucket.present <=> (q.canRead \/ q.canList)

C28_Witness ==
    \E r \in Reqs : LET q == req[r] IN
        /\ IsDone(q, "delete") /\ q.deleteAll /\ q.canList /\ q.canRead
        /\ q.startObjs = 0 /\ ~q.disturbed /\ ~q.fault
        /\ q.delA = "ok" /\ q.walk = "unset"
        /\ q.result = "OK" /\ q.respCount = 0 /\ q.respBucket.present

\* C29: CreateBucket looks at the existence of the name before the quota. A request for
\* a name that is in the catalog never reads the ceiling or the count and ends with
\* AlreadyExists (when the attribution returns), also in a project at or above its
\* ceiling; ResourceExhausted is the answer only to a request whose name was absent.
C29_ExistenceBeforeQuota ==
    \A r \in Reqs : LET q == req[r] IN
        q.kind = "create" =>
            /\ q.exists = "yes" =>
                   /\ ~q.counted /\ q.maxBuckets = 0 /\ q.result # "ResourceExhausted"
                   /\ (q.pc = "done" /\ ~q.fault) => q.result = "AlreadyExists"
            /\ q.pc \in {"max", "count"} => q.exists = "no"
            /\ q.result = "ResourceExhausted" =>
                   /\ q.exists = "no" /\ q.counted
                   /\ ~HasRecord(q.project, q.name)

C29_Witness ==
    \E r \in Reqs : LET q == req[r] IN
        /\ IsDone(q, "create") /\ q.exists = "yes" /\ q.result = "AlreadyExists"
        /\ CountRecords(q.project) >= EffectiveMaxBuckets(q.project)
        /\ q.project \in refused

\* C30: with the requests of a project executed one at a time and the ceiling constant,
\* the number of buckets of a project never exceeds its ceiling, whatever sequence of
\* creates and deletes has run.
C30_SequentialQuotaInvariant ==
    /\ \A p \in Projects : CountRecords(p) <= EffectiveMaxBuckets(p)
    /\ \A r \in Reqs : LET q == req[r] IN
           (q.kind = "create" /\ q.pc = "insert") =>
               CountRecords(q.project) < EffectiveMaxBuckets(q.project)

C30_Witness ==
    /\ \A r \in Reqs : req[r].pc = "idle"
    /\ "P" \in refused
    /\ CountRecords("P") = EffectiveMaxBuckets("P")
    /\ \E b \in catalog : b.project = "P" /\ b.created = MaxClock
    /\ \E k \in Keys : k[1] = "P" /\ ~HasRecord(k[1], k[2])

\* no collaborator call has failed
NoCollaboratorFails == \A r \in Reqs : ~req[r].fault
\* a step that commits no object
NoObjectAdded == \A k \in Keys : objects'[k] <= objects[k]
\* a retried forced deletion has been answered with success and the record is gone
Converged(q) ==
    /\ IsDone(q, "delete") /\ q.retried
    /\ q.result = "OK"
    /\ ~HasRecord(q.project, q.name)

\* with no collaborator failing and the writers stopping, the caller that retries is at
\* some time answered with success and the record is then absent; an object is left
\* under the bucket only if one was committed while the successful request ran
RetryAnswered ==
    ([]NoCollaboratorFails /\ <>[][NoObjectAdded]_vars) =>
        \A r \in Reqs :
            Retryable(req[r]) ~>
                /\ Converged(req[r])
                /\ objects[KeyOf(req[r])] = 0 \/ req[r].disturbed

\* C26: retry convergence. If no collaborator call fails and the object writers stop at
\* some time, a caller with Delete and List whose forced deletion was answered with
\* FailedPrecondition and who re-issues it after each such answer is at some time answered
\* with success, after which the bucket record is absent and no object remains under the
\* bucket.
C26_Claim ==
    ([]NoCollaboratorFails /\ <>[][NoObjectAdded]_vars) =>
        \A r \in Reqs :
            Retryable(req[r]) ~>
                /\ Converged(req[r])
                /\ objects[KeyOf(req[r])] = 0

\* C31: CreateBucket inserts the record before the attribution step and does not roll
\* back. A request is at the attribution after an insert only with its record in the
\* catalog, the attribution step leaves the catalog as it is, and a request answered with
\* the attribution error after its insert has left its record in the catalog (requests
\* run one at a time).
C31_NoRollbackAfterInsert ==
    \A r \in Reqs : LET q == req[r] IN
        q.kind = "create" =>
            /\ q.pc = "attr" => q.inserted /\ HasRecord(q.project, q.name)
            /\ (q.pc = "done" /\ q.inserted) =>
                   /\ HasRecord(q.project, q.name)
                   /\ TheRecord(q.project, q.name).created = q.convBucket.createdAt
                   /\ q.result \in {"OK", "AttributionError"}
            /\ (q.pc = "done" /\ q.result = "AttributionError" /\ q.exists = "no") =>
                   q.inserted /\ q.respBucket = NilProto

C31_Witness ==
    \E r \in Reqs : LET q == req[r] IN
        /\ IsDone(q, "create") /\ q.inserted
        /\ q.result = "AttributionError" /\ q.respBucket = NilProto
        /\ HasRecord(q.project, q.name)
        /\ TheRecord(q.project, q.name).created = clock

\* an emptiness check of the request has failed
CheckFailed(q) == q.kind = "delete" /\ (q.emptyA = "err" \/ q.emptyB = "err")

\* C32 as stated: a request whose emptiness check failed has removed neither the bucket
\* record nor any object.
C32_Original ==
    \A r \in Reqs : LET q == req[r] IN
        CheckFailed(q) =>
            /\ q.delA # "ok" /\ q.delB # "ok"
            /\ q.drained = 0

\* what holds of a request whose emptiness check failed
FailedCheckEnds ==
    \A r \in Reqs : LET q == req[r] IN
        q.kind = "delete" =>
            /\ q.delA # "unset" => q.emptyA = "empty"
            /\ q.delB # "unset" => q.emptyB = "empty"
            /\ CheckFailed(q) =>
                   /\ q.pc = "done" /\ q.fault
                   /\ q.delA = "unset" /\ q.delB = "unset"
            /\ q.emptyA = "err" =>
                   /\ q.walk = "unset" /\ q.drained = 0 /\ q.emptyB = "unset"
                   /\ q.result = IF q.canRead \/ q.canList THEN "Internal" ELSE "OK"
            /\ q.emptyB = "err" =>
                   /\ q.walk = "ok" /\ q.emptyA = "nonempty"
                   /\ HasRecord(q.project, q.name)
                   /\ q.result = "Internal"

\* the step of the failing check and the step after it change neither store
FailedCheckFrame ==
    \A r \in Reqs : LET q == req[r]
                        n == req'[r]
                    IN  /\ (CheckFailed(n) /\ ~CheckFailed(q)) =>
                               /\ q.pc = "empty"
                               /\ catalog' = catalog /\ objects' = objects
                        /\ (CheckFailed(q) /\ n # q) =>
                               /\ n = IdleReq
                               /\ catalog' = catalog /\ objects' = objects

\* C32: the catalog removal is issued only after an emptiness check of the same request
\* returned true without error, and a failed emptiness check ends the request: the
\* failing check changes neither store and no removal and no walk follows it, so the
\* record stays. After a failed first check the request has removed nothing; a failed
\* second check of a forced deletion comes after the walk, whose removals stay.
C32_FailedCheckRemovesNothingMore == []FailedCheckEnds /\ [][FailedCheckFrame]_vars

C32_Witness ==
    \E r \in Reqs : LET q == req[r] IN
        /\ IsDone(q, "delete") /\ q.emptyB = "err"
        /\ q.drained > 0 /\ objects[KeyOf(q)] = 0
        /\ HasRecord(q.project, q.name)
        /\ q.result = "Internal"

\* the operations that only read
ReadOnly == {"get", "list", "count"}

\* C33: GetBucket, ListBuckets and CountBuckets are read-only. No step of such a request,
\* from its start to the delivery of its answer, success or error, changes the bucket
\* catalog or the object store, and such a request has removed or inserted nothing.
C33_ReadsChangeNothing ==
    [][\A r \in Reqs :
          /\ (req'[r] # req[r] /\ (req[r].kind \in ReadOnly \/ req'[r].kind \in ReadOnly)) =>
                 /\ catalog' = catalog /\ objects' = objects
                 /\ clock' = clock /\ overrides' = overrides
          /\ req'[r].kind \in ReadOnly => ~Mutated(req'[r])]_vars

C33_Witness ==
    /\ \E r \in Reqs : LET q == req[r] IN
           /\ IsDone(q, "count") /\ q.result = "OK"
           /\ q.respCount = CountRecords(q.project) /\ q.respCount > 0
           /\ \E n \in Names : HasRecord(q.project, n) /\ objects[<<q.project, n>>] > 0

\* what a request has been told agrees with the catalog of its own project
OwnProjectRead ==
    \A r \in Reqs : LET q == req[r] IN
        /\ (IsDone(q, "get") /\ q.result = "OK") =>
               /\ HasRecord(q.project, q.name)
               /\ q.respBucket.createdAt = TheRecord(q.project, q.name).created
        /\ (IsDone(q, "get") /\ q.result = "NotFound") => ~HasRecord(q.project, q.name)
        /\ (q.kind = "create" /\ q.exists = "yes") => HasRecord(q.project, q.name)
        /\ (q.kind = "create" /\ q.exists = "no" /\ ~q.inserted) =>
               ~HasRecord(q.project, q.name)
        /\ (q.kind = "create" /\ q.counted /\ ~q.inserted) =>
               q.bucketCount = CountRecords(q.project)
        /\ (q.kind = "delete" /\ q.convBucket.present /\ q.delA # "ok" /\ q.delB # "ok") =>
               /\ HasRecord(q.project, q.name)
               /\ q.convBucket.createdAt = TheRecord(q.project, q.name).created
        /\ (IsDone(q, "list") /\ q.result = "OK") =>
               \A i \in 1..Len(q.items) :
                   /\ HasRecord(q.project, q.items[i].name)
                   /\ q.items[i].createdAt = TheRecord(q.project, q.items[i].name).created
        /\ (IsDone(q, "count") /\ q.result = "OK") => q.respCount = CountRecords(q.project)

\* a step of a request writes only under its own project and bucket, and its emptiness
\* check looks at the objects of its own bucket
OwnProjectWrite ==
    \A r \in Reqs :
        LET q == req[r]
            n == IF req'[r].kind = "none" THEN req[r] ELSE req'[r]
        IN  req'[r] # q =>
                /\ \A b \in (catalog' \ catalog) \cup (catalog \ catalog') :
                       b.project = n.project /\ b.name = n.name
                /\ \A k \in Keys : objects'[k] # objects[k] => k = KeyOf(n)
                /\ (n.kind = "delete" /\ q.pc = "empty" /\ n.pc \in {"del", "walk"}) =>
                       (n.pc = "del" <=> objects[KeyOf(n)] = 0)

\* C34: project isolation. Every catalog and object-store access of a request uses the
\* project of its credential: what the request is told is what the catalog holds for its
\* own project, and what it inserts, removes or drains lies under its own project, also
\* when another project has a bucket of the same name (requests run one at a time).
C34_ProjectIsolation == []OwnProjectRead /\ [][OwnProjectWrite]_vars

C34_Witness ==
    \E r \in Reqs : LET q == req[r] IN
        /\ IsDone(q, "delete") /\ q.result = "OK" /\ q.drained > 0
        /\ ~HasRecord(q.project, q.name)
        /\ \E p \in Projects \ {q.project} :
               /\ HasRecord(p, q.name)
               /\ objects[<<p, q.name>>] > 0

\* C35: converting a record with an empty name yields a nil payload and no error, and
\* converting a record with a non-empty name, inside the name grammar or not, yields a
\* payload with exactly that name and that creation time, and no error.
C35_ConversionOfRecords ==
    \A r \in Reqs : LET q == req[r] IN
        IsDone(q, "convert") =>
            /\ q.result = "OK"
            /\ Len(q.name) = 0 => q.respBucket = NilProto /\ ~q.respBucket.present
            /\ Len(q.name) > 0 =>
                   /\ q.respBucket.present
                   /\ q.respBucket.name = q.name
                   /\ q.respBucket.createdAt = q.createdAt

C35_Witness ==
    \E r, t \in Reqs :
        /\ IsDone(req[r], "convert") /\ req[r].name = <<>> /\ req[r].createdAt = MaxClock
        /\ req[r].respBucket = NilProto /\ req[r].result = "OK"
        /\ IsDone(req[t], "convert") /\ req[t].name = BadName
        /\ req[t].respBucket.name = BadName /\ req[t].respBucket.createdAt = MaxClock
        /\ req[t].respBucket.defaultSegmentSize # InitialConfig.maxSegmentSize

====
